---- MODULE Spec2Model ----
(***************************************************************************)
(* A model of sitemap.py: main() scans a tree of HTML files, writes the    *)
(* sitemap parts, removes stale part files and writes the sitemap index.   *)
(*                                                                         *)
(* File names are sequences of one-character strings, so that the glob     *)
(* pattern and the regular expression of cleanup_old_parts are matched     *)
(* character by character.  URLs are records                               *)
(*   [scheme, netloc, dirs, file]                                          *)
(* standing for  scheme://netloc/dir1/.../dirk/file .                      *)
(* The page's lastmod, changefreq and priority children take no part in    *)
(* any property below and are left out of the url entries.                 *)
(***************************************************************************)
EXTENDS Integers, Sequences, FiniteSets, TLC

\* ------------------------------------------------------------------ bounds
MaxPages == 3       \* entries of the scanned tree
MaxSplit == 3       \* largest --split value tried
MaxNegSplit == 1    \* --split ranges over -MaxNegSplit .. MaxSplit
MaxClock == 1       \* readings of the UTC clock range over 0 .. MaxClock
MaxOldPart == 3     \* part files left behind by an earlier run: 1 .. MaxOldPart

\* ------------------------------------------------- characters and names
DigitChars == <<"0", "1", "2", "3", "4", "5", "6", "7", "8", "9">>

IsDigit(c) == \E i \in 1..Len(DigitChars) : DigitChars[i] = c

RECURSIVE DecimalStr(_)
\* str(n) of a natural number, as the f-string {part_num + 1} formats it
DecimalStr(n) ==
    IF n < 10 THEN <<DigitChars[n + 1]>>
    ELSE DecimalStr(n \div 10) \o <<DigitChars[(n % 10) + 1]>>

XmlExt == <<".", "x", "m", "l">>

SitemapStem == <<"s", "i", "t", "e", "m", "a", "p">>

SitemapIndexStem == SitemapStem \o <<"_", "i", "n", "d", "e", "x">>

IndexName == SitemapIndexStem \o XmlExt

\* the part prefix derived from the stem of --output
PartPrefix(output_prefix) ==
    IF output_prefix = SitemapIndexStem THEN SitemapStem ELSE output_prefix

\* the name of the part file of the 0-based part_num
PartFileName(part_prefix, part_num) ==
    part_prefix \o <<"-">> \o DecimalStr(part_num + 1) \o XmlExt

Drop(s, n) == SubSeq(s, n + 1, Len(s))

StartsWith(s, p) == Len(s) >= Len(p) /\ SubSeq(s, 1, Len(p)) = p

EndsWith(s, p) == Len(s) >= Len(p) /\ Drop(s, Len(s) - Len(p)) = p

\* ------------------------------------------------------ glob and regex
\* the index of the "]" closing the character class whose "[" is at pat[1],
\* 0 if there is none (fnmatch then takes "[" literally); a "]" right after
\* "[" or "[!" is a member of the class
ClassEnd(pat) ==
    LET first == IF Len(pat) >= 2 /\ pat[2] = "!" THEN 3 ELSE 2
        from  == IF Len(pat) >= first /\ pat[first] = "]" THEN first + 1 ELSE first
        ends  == {j \in from..Len(pat) : pat[j] = "]"}
    IN  IF ends = {} THEN 0 ELSE CHOOSE j \in ends : \A k \in ends : j <= k

\* does the character class closed at index e (pat[1] = "[") accept c;
\* the classes of the model list their members, ranges a-z do not occur
ClassAccepts(pat, e, c) ==
    LET neg     == pat[2] = "!"
        from    == IF neg THEN 3 ELSE 2
        members == {pat[j] : j \in from..(e - 1)}
    IN  IF neg THEN c \notin members ELSE c \in members

RECURSIVE GlobMatch(_, _)
\* fnmatch of one path component: * any run, ? any character, [..] a class
GlobMatch(pat, name) ==
    IF pat = <<>> THEN name = <<>>
    ELSE IF pat[1] = "*"
         THEN \E k \in 0..Len(name) : GlobMatch(Tail(pat), Drop(name, k))
    ELSE IF name = <<>> THEN FALSE
    ELSE IF pat[1] = "?" THEN GlobMatch(Tail(pat), Tail(name))
    ELSE IF pat[1] = "[" /\ ClassEnd(pat) # 0
         THEN /\ ClassAccepts(pat, ClassEnd(pat), name[1])
              /\ GlobMatch(Drop(pat, ClassEnd(pat)), Tail(name))
    ELSE pat[1] = name[1] /\ GlobMatch(Tail(pat), Tail(name))

\* the pattern f"{part_prefix}-*.xml" handed to Path.glob
GlobPattern(part_prefix) == part_prefix \o <<"-", "*">> \o XmlExt

\* part_file_pattern.match(name) for ^re.escape(prefix)-\d+\.xml$
PartFilePatternMatch(part_prefix, name) ==
    LET head == part_prefix \o <<"-">>
        mid  == SubSeq(name, Len(head) + 1, Len(name) - Len(XmlExt))
    IN  /\ StartsWith(name, head)
        /\ Len(name) >= Len(head) + Len(XmlExt)
        /\ EndsWith(name, XmlExt)
        /\ mid # <<>>
        /\ \A i \in 1..Len(mid) : IsDigit(mid[i])

\* ----------------------------------------------------------------- URLs
Front(s) == IF s = <<>> THEN <<>> ELSE SubSeq(s, 1, Len(s) - 1)

Url(scheme, netloc, dirs, file) ==
    [scheme |-> scheme, netloc |-> netloc, dirs |-> dirs, file |-> file]

\* a reference: mode "rel" (d/f), "parent" (../d/f) or "root" (/d/f)
Ref(mode, dirs, file) == [mode |-> mode, dirs |-> dirs, file |-> file]

\* urllib.parse.urljoin(base, ref): the reference replaces the last segment
\* of the base path, after ".." has removed one directory
urljoin(base, ref) ==
    Url(base.scheme, base.netloc,
        CASE ref.mode = "rel"    -> base.dirs \o ref.dirs
          [] ref.mode = "parent" -> Front(base.dirs) \o ref.dirs
          [] ref.mode = "root"   -> ref.dirs,
        ref.file)

\* f"{parsed_base_url.scheme}://{parsed_base_url.netloc}/"
SitemapBaseUrl(site_base_url) ==
    Url(site_base_url.scheme, site_base_url.netloc, <<>>, "")

\* f"{sitemap_base_url}{part_filename.name}"
PartUrl(site_base_url, name) ==
    [SitemapBaseUrl(site_base_url) EXCEPT !.file = name]

\* Path(part_url).name
PathName(part_url) == part_url.file

\* the order of str on the path segments of the model
SegRank(seg) ==
    CASE seg = ""      -> 0
      [] seg = "blog"  -> 1
      [] seg = "sub"   -> 2
      [] seg = "x.jpg" -> 3
      [] seg = "y.jpg" -> 4
      [] OTHER         -> 5

RECURSIVE SegsLess(_, _)
SegsLess(a, b) ==
    IF a = <<>> THEN b # <<>>
    ELSE IF b = <<>> THEN FALSE
    ELSE IF a[1] = b[1] THEN SegsLess(Tail(a), Tail(b))
    ELSE SegRank(a[1]) < SegRank(b[1])

\* u < v as strings, for URLs of one scheme and host
UrlLess(u, v) == SegsLess(u.dirs \o <<u.file>>, v.dirs \o <<v.file>>)

RECURSIVE sorted(_)
\* sorted(image_urls): the list of the set in ascending order
sorted(S) ==
    IF S = {} THEN <<>>
    ELSE LET m == CHOOSE u \in S : \A v \in S \ {u} : UrlLess(u, v)
         IN  <<m>> \o sorted(S \ {m})

\* ------------------------------------------------------- python helpers
\* an index of a slice, clamped as list slicing clamps it
SliceIndex(i, n) ==
    IF i < 0 THEN (IF n + i < 0 THEN 0 ELSE n + i)
    ELSE (IF i > n THEN n ELSE i)

\* s[a:b] of a list
Slice(s, a, b) ==
    LET lo == SliceIndex(a, Len(s))
        hi == SliceIndex(b, Len(s))
    IN  IF lo < hi THEN SubSeq(s, lo + 1, hi) ELSE <<>>

Min(a, b) == IF a < b THEN a ELSE b

\* math.ceil(n / c) for n >= 0 and c > 0
Ceil(n, c) == (n + c - 1) \div c

\* num_parts with the quotient rounded down
NumPartsFloor(num_urls, limit) == IF limit > 0 THEN num_urls \div limit ELSE 1

\* num_parts
NumParts(num_urls, limit) == IF limit > 0 THEN Ceil(num_urls, limit) ELSE 1

\* page_data[key] = value on an insertion-ordered dict kept as a list of items
DictSet(d, key, value) ==
    IF \E i \in 1..Len(d) : d[i].key = key
    THEN [i \in 1..Len(d) |-> IF d[i].key = key THEN [key |-> key, value |-> value] ELSE d[i]]
    ELSE Append(d, [key |-> key, value |-> value])

RECURSIVE Reverse(_)
Reverse(s) == IF s = <<>> THEN <<>> ELSE Append(Reverse(Tail(s)), s[1])

\* the items in another order than the dict's
ItemsReversed(d) == Reverse(d)

\* list(page_data.items())
Items(d) == d

\* file_path.suffix.lower()
Lower(suffix) ==
    CASE suffix = ".HTM"  -> ".htm"
      [] suffix = ".HTML" -> ".html"
      [] OTHER            -> suffix

extensions == {".htm", ".html"}

\* -------------------------------------------------------- the inputs
\* an <img> tag without src, or with an empty one
NoSrc == Ref("none", <<>>, "")

ImgX(dir) == IF dir = <<>> THEN Ref("rel", <<>>, "x.jpg") ELSE Ref("parent", <<>>, "x.jpg")

ImgY(dir) == IF dir = <<>> THEN Ref("rel", <<>>, "y.jpg") ELSE Ref("root", <<>>, "y.jpg")

\* the src values of the <img> tags of a page in directory dir
TagChoices(dir) ==
    LET extra == IF dir = <<>> THEN {} ELSE {NoSrc}
    IN  {{}, {ImgX(dir)} \cup extra, {ImgY(dir)}, {ImgX(dir), ImgY(dir)}}

EntryDir(i) == IF i % 2 = 0 THEN <<"sub">> ELSE <<>>

HtmlSuffix(i) == CASE i % 3 = 1 -> ".html" [] i % 3 = 2 -> ".HTM" [] OTHER -> ".htm"

Entry(i, suffix, kind, tags) ==
    [dir |-> EntryDir(i), name |-> "p" \o ToString(i) \o suffix, suffix |-> suffix,
     kind |-> kind, img_tags |-> tags]

\* the i-th entry of the walk when it can be read: a page, or a file of
\* another suffix
ReadableChoices(i) ==
    {Entry(i, HtmlSuffix(i), "file", t) : t \in TagChoices(EntryDir(i))}
        \cup {Entry(i, ".txt", "file", {})}

\* ... and when it cannot: a directory named like a page (open() raises),
\* or an entry whose stat() raises
UnreadableChoices(i) ==
    {Entry(i, HtmlSuffix(i), "dir", {}), Entry(i, HtmlSuffix(i), "nostat", {})}

RECURSIVE ReadableTrees(_)
ReadableTrees(n) ==
    IF n = 0 THEN {<<>>}
    ELSE {Append(t, e) : t \in ReadableTrees(n - 1), e \in ReadableChoices(n)}

\* the walks of rglob: the entries after an unreadable one are never
\* visited, so an unreadable entry is the last of its walk
Trees ==
    UNION {ReadableTrees(n) : n \in 0..MaxPages}
        \cup UNION {{Append(t, e) : t \in ReadableTrees(n - 1), e \in UnreadableChoices(n)} :
                    n \in 1..MaxPages}

Bases == {Url("https", "example.com", <<>>, ""), Url("https", "example.com", <<"blog">>, "")}

Splits == (0 - MaxNegSplit)..MaxSplit

OldFile == [run |-> "old", complete |-> TRUE, doc |-> <<>>]

StyleName(part_prefix) == part_prefix \o <<"-", "s", "t", "y", "l", "e">> \o XmlExt

\* ----------------------------------------------------------- the state
VARIABLES
    tree,            \* the walk of site_root: the entries rglob yields, in order
    site_base_url,   \* --site_base_url
    split_limit,     \* --split
    output_stem,     \* the stem of --output
    fs0,             \* the output directory before the run
    fs,              \* the output directory: file name -> [run, complete, doc]
    open_files,      \* the output files open for writing
    pc,              \* where main() is
    raised,          \* the exception that ended main(): "none", "scan" or "write"
    scan_i,          \* entries of the walk consumed by scan_html_files
    html_file_count,
    page_data,       \* the dict of scan_html_files, in insertion order
    num_parts,
    part_num,
    image_seen,
    part_files,      \* list of part URLs
    urlset,          \* the url entries of the part being written
    unlink_errors,   \* stale files whose unlink() raised
    sitemapindex,    \* the sitemap entries of the index
    clock            \* the last reading of the UTC clock

vars == <<tree, site_base_url, split_limit, output_stem, fs0, fs, open_files, pc,
          raised, scan_i, html_file_count, page_data, num_parts, part_num,
          image_seen, part_files, urlset, unlink_errors, sitemapindex, clock>>

inputs == <<tree, site_base_url, split_limit, output_stem, fs0>>

InitRun ==
    /\ fs = fs0
    /\ open_files = {}
    /\ pc = "scan"
    /\ raised = "none"
    /\ scan_i = 0
    /\ html_file_count = 0
    /\ page_data = <<>>
    /\ num_parts = 0
    /\ part_num = 0
    /\ image_seen = {}
    /\ part_files = <<>>
    /\ urlset = <<>>
    /\ unlink_errors = {}
    /\ sitemapindex = <<>>
    /\ clock = 0

\* the directory an earlier run with the default --output left behind: its
\* first and last part, the stylesheet and the index
EarlierRun ==
    [n \in {PartFileName(SitemapStem, 0), PartFileName(SitemapStem, MaxOldPart - 1),
             StyleName(SitemapStem), IndexName} |-> OldFile]

Init ==
    /\ tree \in Trees
    /\ site_base_url \in Bases
    /\ split_limit \in Splits
    /\ output_stem = SitemapIndexStem
    /\ fs0 = EarlierRun
    /\ InitRun

\* ------------------------------------------------------ scan_html_files
IsHtml(e) == Lower(e.suffix) \in extensions

\* urljoin(site_base_url, rel_path.as_posix())
PageUrl(base, e) == urljoin(base, Ref("rel", e.dir, e.name))

\* the set image_urls of a page: every non-empty src, resolved against the page
ImageUrls(page_url, img_tags) ==
    {urljoin(page_url, src) : src \in {t \in img_tags : t.mode # "none"}}

\* an entry of another suffix is passed over
ScanSkip ==
    /\ pc = "scan"
    /\ scan_i < Len(tree)
    /\ ~IsHtml(tree[scan_i + 1])
    /\ scan_i' = scan_i + 1
    /\ UNCHANGED <<inputs, fs, open_files, pc, raised, html_file_count, page_data,
                   num_parts, part_num, image_seen, part_files, urlset,
                   unlink_errors, sitemapindex, clock>>

\* a page is read and recorded
ScanPage ==
    /\ pc = "scan"
    /\ scan_i < Len(tree)
    /\ LET e == tree[scan_i + 1]
           page_url == PageUrl(site_base_url, e)
       IN  /\ IsHtml(e)
           /\ e.kind = "file"
           /\ page_data' = DictSet(page_data, page_url, ImageUrls(page_url, e.img_tags))
    /\ html_file_count' = html_file_count + 1
    /\ scan_i' = scan_i + 1
    /\ UNCHANGED <<inputs, fs, open_files, pc, raised, num_parts, part_num,
                   image_seen, part_files, urlset, unlink_errors, sitemapindex, clock>>

\* stat() or open() raises: nothing catches it, and main() ends
ScanRaise ==
    /\ pc = "scan"
    /\ scan_i < Len(tree)
    /\ IsHtml(tree[scan_i + 1])
    /\ tree[scan_i + 1].kind # "file"
    /\ html_file_count' = html_file_count + 1
    /\ pc' = "aborted"
    /\ raised' = "scan"
    /\ UNCHANGED <<inputs, fs, open_files, scan_i, page_data, num_parts, part_num,
                   image_seen, part_files, urlset, unlink_errors, sitemapindex, clock>>

\* --------------------------------------------------- generate_sitemap_parts
\* scan_html_files returns and generate_sitemap_parts sets up its loop
StartParts ==
    /\ pc = "scan"
    /\ scan_i = Len(tree)
    /\ num_parts' = NumParts(Len(Items(page_data)), split_limit)
    /\ part_num' = 0
    /\ image_seen' = {}
    /\ part_files' = <<>>
    /\ pc' = "parts"
    /\ UNCHANGED <<inputs, fs, open_files, raised, scan_i, html_file_count, page_data,
                   urlset, unlink_errors, sitemapindex, clock>>

\* urls[part_start:part_end]
PartUrls(urls, n, limit) ==
    LET part_start == n * limit
        part_end   == Min(part_start + limit, Len(urls))
    IN  Slice(urls, part_start, part_end)

RECURSIVE EmitImages(_, _, _)
\* the loop over sorted(image_urls): an image not seen yet is emitted and
\* marked; the result is the image children and the seen-set after the loop
EmitImages(imgs, seen, acc) ==
    IF imgs = <<>> THEN [images |-> acc, seen |-> seen]
    ELSE IF imgs[1] \in seen THEN EmitImages(Tail(imgs), seen, acc)
    ELSE EmitImages(Tail(imgs), seen \cup {imgs[1]}, Append(acc, imgs[1]))

RECURSIVE UrlEntries(_, _, _)
\* the loop over part_urls: one url entry per page
UrlEntries(part_urls, seen, acc) ==
    IF part_urls = <<>> THEN [urlset |-> acc, seen |-> seen]
    ELSE LET page == part_urls[1]
             em   == EmitImages(sorted(page.value), seen, <<>>)
         IN  UrlEntries(Tail(part_urls), em.seen,
                        Append(acc, [loc |-> page.key, images |-> em.images]))

\* a seen-set that starts empty in every part
SeenResetPerPart(seen) == {}

\* image_seen as the loop body of a part finds it
SeenAtPartStart(seen) == seen

CurrentPartName == PartFileName(PartPrefix(output_stem), part_num)

\* the urlset of the next part is built in memory
BuildPart ==
    /\ pc = "parts"
    /\ part_num < num_parts
    /\ LET built == UrlEntries(PartUrls(Items(page_data), part_num, split_limit),
                               SeenAtPartStart(image_seen), <<>>)
       IN  /\ urlset' = built.urlset
           /\ image_seen' = built.seen
    /\ part_files' = Append(part_files, PartUrl(site_base_url, CurrentPartName))
    /\ pc' = "open_part"
    /\ UNCHANGED <<inputs, fs, open_files, raised, scan_i, html_file_count, page_data,
                   num_parts, part_num, unlink_errors, sitemapindex, clock>>

\* open(name, "w"): the file exists, empty
Truncated == [run |-> "new", complete |-> FALSE, doc |-> <<>>]

Written(doc) == [run |-> "new", complete |-> TRUE, doc |-> doc]

Put(dir, name, file) ==
    [n \in DOMAIN dir \cup {name} |-> IF n = name THEN file ELSE dir[n]]

\* a file that stays open
CloseFileLeak(files, name) == files

\* leaving the with block closes the file
CloseFile(files, name) == files \ {name}

OpenPart ==
    /\ pc = "open_part"
    /\ fs' = Put(fs, CurrentPartName, Truncated)
    /\ open_files' = open_files \cup {CurrentPartName}
    /\ pc' = "write_part"
    /\ UNCHANGED <<inputs, raised, scan_i, html_file_count, page_data, num_parts,
                   part_num, image_seen, part_files, urlset, unlink_errors,
                   sitemapindex, clock>>

WritePart ==
    /\ pc = "write_part"
    /\ fs' = Put(fs, CurrentPartName, Written(urlset))
    /\ pc' = "close_part"
    /\ UNCHANGED <<inputs, open_files, raised, scan_i, html_file_count, page_data,
                   num_parts, part_num, image_seen, part_files, urlset,
                   unlink_errors, sitemapindex, clock>>

ClosePart ==
    /\ pc = "close_part"
    /\ open_files' = CloseFile(open_files, CurrentPartName)
    /\ part_num' = part_num + 1
    /\ pc' = "parts"
    /\ UNCHANGED <<inputs, fs, raised, scan_i, html_file_count, page_data, num_parts,
                   image_seen, part_files, urlset, unlink_errors, sitemapindex, clock>>

\* open() of an output file raises: main() ends, nothing was opened
OpenRaise ==
    /\ pc \in {"open_part", "open_index"}
    /\ pc' = "aborted"
    /\ raised' = "write"
    /\ UNCHANGED <<inputs, fs, open_files, scan_i, html_file_count, page_data,
                   num_parts, part_num, image_seen, part_files, urlset,
                   unlink_errors, sitemapindex, clock>>

\* a write raises: the with block closes the file, left incomplete
WriteRaise ==
    /\ pc \in {"write_part", "write_index"}
    /\ open_files' = CloseFile(open_files,
                               IF pc = "write_part" THEN CurrentPartName ELSE IndexName)
    /\ pc' = "aborted"
    /\ raised' = "write"
    /\ UNCHANGED <<inputs, fs, scan_i, html_file_count, page_data, num_parts,
                   part_num, image_seen, part_files, urlset, unlink_errors,
                   sitemapindex, clock>>

\* ------------------------------------------------------- cleanup_old_parts
\* list(Path(output_dir).glob(f"{part_prefix}-*.xml"))
ExistingFiles(dir, part_prefix) ==
    {n \in DOMAIN dir : GlobMatch(GlobPattern(part_prefix), n)}

\* the files the loop tries to unlink
StaleFiles(dir, part_prefix, part_files_current) ==
    LET current_filenames == {PathName(part_files_current[i]) :
                                  i \in 1..Len(part_files_current)}
    IN  {n \in ExistingFiles(dir, part_prefix) :
            /\ PartFilePatternMatch(part_prefix, n)
            /\ n \notin current_filenames}

\* generate_sitemap_parts has returned; the stale files are unlinked, and an
\* unlink that raises is reported and passed over
Cleanup ==
    /\ pc = "parts"
    /\ part_num >= num_parts
    /\ \E failed \in SUBSET StaleFiles(fs, PartPrefix(output_stem), part_files) :
          /\ unlink_errors' = failed
          /\ fs' = [n \in DOMAIN fs \
                          (StaleFiles(fs, PartPrefix(output_stem), part_files) \ failed)
                      |-> fs[n]]
    /\ pc' = "index"
    /\ UNCHANGED <<inputs, open_files, raised, scan_i, html_file_count, page_data,
                   num_parts, part_num, image_seen, part_files, urlset,
                   sitemapindex, clock>>

\* ---------------------------------------------------- generate_sitemap_index
\* datetime.now(UTC), to the second: the clock has not gone back, and may
\* have gone on
ClockReadings(last) == {last, Min(last + 1, MaxClock)}

\* one <sitemap> entry is added for the next part
IndexEntry ==
    /\ pc = "index"
    /\ Len(sitemapindex) < Len(part_files)
    /\ \E now \in ClockReadings(clock) :
          /\ clock' = now
          /\ sitemapindex' = Append(sitemapindex,
                                    [loc |-> part_files[Len(sitemapindex) + 1],
                                     lastmod |-> now])
    /\ UNCHANGED <<inputs, fs, open_files, pc, raised, scan_i, html_file_count,
                   page_data, num_parts, part_num, image_seen, part_files, urlset,
                   unlink_errors>>

IndexBuilt ==
    /\ pc = "index"
    /\ Len(sitemapindex) = Len(part_files)
    /\ pc' = "open_index"
    /\ UNCHANGED <<inputs, fs, open_files, raised, scan_i, html_file_count, page_data,
                   num_parts, part_num, image_seen, part_files, urlset,
                   unlink_errors, sitemapindex, clock>>

OpenIndex ==
    /\ pc = "open_index"
    /\ fs' = Put(fs, IndexName, Truncated)
    /\ open_files' = open_files \cup {IndexName}
    /\ pc' = "write_index"
    /\ UNCHANGED <<inputs, raised, scan_i, html_file_count, page_data, num_parts,
                   part_num, image_seen, part_files, urlset, unlink_errors,
                   sitemapindex, clock>>

WriteIndex ==
    /\ pc = "write_index"
    /\ fs' = Put(fs, IndexName, Written(sitemapindex))
    /\ pc' = "close_index"
    /\ UNCHANGED <<inputs, open_files, raised, scan_i, html_file_count, page_data,
                   num_parts, part_num, image_seen, part_files, urlset,
                   unlink_errors, sitemapindex, clock>>

\* the index is closed; submit_sitemap and print_summary only print
CloseIndex ==
    /\ pc = "close_index"
    /\ open_files' = CloseFile(open_files, IndexName)
    /\ pc' = "done"
    /\ UNCHANGED <<inputs, fs, raised, scan_i, html_file_count, page_data, num_parts,
                   part_num, image_seen, part_files, urlset, unlink_errors,
                   sitemapindex, clock>>

Next ==
    \/ ScanSkip
    \/ ScanPage
    \/ ScanRaise
    \/ StartParts
    \/ BuildPart
    \/ OpenPart
    \/ WritePart
    \/ ClosePart
    \/ OpenRaise
    \/ WriteRaise
    \/ Cleanup
    \/ IndexEntry
    \/ IndexBuilt
    \/ OpenIndex
    \/ WriteIndex
    \/ CloseIndex

Spec == Init /\ [][Next]_vars

\* the stems of --output tried with a directory of stale files
OutputStems == {SitemapIndexStem, <<"m">>, <<"[", "m", "]">>}

\* names an output directory may hold before the run, for a part prefix
Candidates(part_prefix) ==
    {PartFileName(part_prefix, k) : k \in 0..(MaxOldPart - 1)}
        \cup {part_prefix \o <<"-", "0">> \o XmlExt,
              StyleName(part_prefix),
              <<"m", "-", "2">> \o XmlExt}

InitCleanup ==
    /\ tree \in {t \in Trees : \A i \in 1..Len(t) : t[i].img_tags = {}}
    /\ site_base_url = Url("https", "example.com", <<>>, "")
    /\ split_limit \in 1..MaxSplit
    /\ output_stem \in OutputStems
    /\ \E names \in SUBSET Candidates(PartPrefix(output_stem)) :
          fs0 = [n \in names |-> OldFile]
    /\ InitRun

SpecCleanup == InitCleanup /\ [][Next]_vars

\* =================================================================
\* The properties
\* =================================================================
PartsWritten == pc \in {"index", "open_index", "write_index", "close_index", "done"}

IsNewComplete(name) ==
    name \in DOMAIN fs /\ fs[name].run = "new" /\ fs[name].complete

\* the part documents of this run that are written, by part number
WrittenParts == {i \in 1..Len(part_files) : IsNewComplete(PathName(part_files[i]))}

PartDoc(i) == fs[PathName(part_files[i])].doc

\* the places <<part, url entry, child>> of the image children written
Places ==
    UNION {UNION {{<<i, j, k>> : k \in 1..Len(PartDoc(i)[j].images)} :
                  j \in 1..Len(PartDoc(i))} : i \in WrittenParts}

\* the places where image u is emitted
Occurrences(u) == {q \in Places : PartDoc(q[1])[q[2]].images[q[3]] = u}

EmittedImages == {PartDoc(q[1])[q[2]].images[q[3]] : q \in Places}

\* the pages of the walk, by position, and what they reference
WalkPages == {i \in 1..Len(tree) : IsHtml(tree[i]) /\ tree[i].kind = "file"}

WalkUrl(i) == PageUrl(site_base_url, tree[i])

WalkImages(i) == ImageUrls(WalkUrl(i), tree[i].img_tags)

ReferencedImages == UNION {WalkImages(i) : i \in WalkPages}

\* the earliest page of the walk that references u
FirstPage(u) ==
    CHOOSE i \in WalkPages :
        u \in WalkImages(i) /\ \A j \in WalkPages : u \in WalkImages(j) => i <= j

\* the url entries <<part, entry>> whose loc is the page at walk position i
EntriesOf(i) ==
    {<<n, j>> \in UNION {{<<n, j>> : j \in 1..Len(PartDoc(n))} : n \in WrittenParts} :
        PartDoc(n)[j].loc = WalkUrl(i)}

\* the pages under which u is emitted
EmittedUnder(u) == {i \in WalkPages : \E q \in Occurrences(u) : <<q[1], q[2]>> \in EntriesOf(i)}

\* C1: every image URL emitted appears under exactly one url entry over all
\* the parts written, once inside it, and the seen-set holds every image
\* emitted so far in the run: it is carried from part to part, never emptied.
C1_EmittedOnce ==
    /\ \A u \in EmittedImages : Cardinality(Occurrences(u)) = 1
    /\ pc # "scan" => EmittedImages \subseteq image_seen

\* an image referenced by pages of two different parts has been emitted
C1_Witness ==
    /\ pc = "done"
    /\ split_limit > 0
    /\ \E u \in EmittedImages : \E i, j \in WalkPages :
          /\ u \in WalkImages(i) /\ u \in WalkImages(j)
          /\ \E a \in EntriesOf(i), b \in EntriesOf(j) : a[1] # b[1]

\* C2: once the parts are written, an image is emitted under no page but the
\* earliest page of the walk that references it, and, for a positive split
\* limit, it is emitted under that page.
C2_FirstOccurrenceWins ==
    PartsWritten =>
        \A u \in ReferencedImages :
            /\ EmittedUnder(u) \subseteq {FirstPage(u)}
            /\ split_limit > 0 => EmittedUnder(u) = {FirstPage(u)}

\* the first page referencing an image and a later one lie in different
\* parts; the image is under the first, and the later page's entry lacks it
C2_Witness ==
    /\ pc = "done"
    /\ \E u \in ReferencedImages : \E j \in WalkPages :
          /\ j > FirstPage(u)
          /\ u \in WalkImages(j)
          /\ EmittedUnder(u) = {FirstPage(u)}
          /\ \E a \in EntriesOf(FirstPage(u)), b \in EntriesOf(j) : a[1] # b[1]

\* the least k with k * c >= n
CeilDiv(n, c) == CHOOSE k \in 0..n : k * c >= n /\ \A m \in 0..n : m * c >= n => k <= m

\* <prefix>-<n>.xml for a part number n below ten
NumberedName(n) == PartPrefix(output_stem) \o <<"-", DigitChars[n + 1]>> \o XmlExt

\* C3: for N pages and a positive capacity C the run writes ceil(N / C)
\* parts, named <prefix>-1.xml, <prefix>-2.xml, ... without a gap; each part
\* but the last holds C url entries and the last holds N - C * (parts - 1).
C3_PartCount ==
    (PartsWritten /\ split_limit > 0) =>
        LET N == Len(page_data)
            P == CeilDiv(N, split_limit)
        IN  /\ Len(part_files) = P
            /\ WrittenParts = 1..P
            /\ \A i \in 1..P :
                  /\ PathName(part_files[i]) = NumberedName(i)
                  /\ Len(PartDoc(i)) = IF i < P THEN split_limit
                                       ELSE N - split_limit * (P - 1)

\* several parts, the last one short
C3_Witness ==
    /\ pc = "done"
    /\ split_limit > 1
    /\ Len(part_files) > 1
    /\ Len(PartDoc(Len(part_files))) < split_limit

\* C9: at most one output file is open; while a part is open the parts
\* before it are written and closed; while the index is open, and whenever
\* an index of this run exists, every part of the run is written and closed
\* and the index names no other file.
C9_OneFileAtATime ==
    /\ Cardinality(open_files) <= 1
    /\ \A i \in 1..Len(part_files) :
          PathName(part_files[i]) \in open_files =>
              \A j \in 1..(i - 1) :
                  /\ j \in WrittenParts
                  /\ PathName(part_files[j]) \notin open_files
    /\ (IndexName \in open_files \/ (IndexName \in DOMAIN fs /\ fs[IndexName].run = "new")) =>
          /\ part_num = num_parts
          /\ WrittenParts = 1..num_parts
          /\ \A i \in 1..Len(part_files) : PathName(part_files[i]) \notin open_files
          /\ \A k \in 1..Len(fs[IndexName].doc) :
                PathName(fs[IndexName].doc[k].loc) \in {PathName(part_files[i]) : i \in WrittenParts}

\* the run has stopped on a write error after a first part: the part it was
\* writing is incomplete, and the index in the directory is the earlier run's
C9_Witness ==
    /\ pc = "aborted"
    /\ raised = "write"
    /\ WrittenParts # {}
    /\ \E i \in 1..Len(part_files) :
          /\ PathName(part_files[i]) \in DOMAIN fs
          /\ ~fs[PathName(part_files[i])].complete
    /\ IndexName \in DOMAIN fs
    /\ fs[IndexName].run = "old"

\* the url entries <<part, entry>> written over all the parts
AllEntries == UNION {{<<n, j>> : j \in 1..Len(PartDoc(n))} : n \in WrittenParts}

\* C4: when the run is done, whatever the split limit, every key of
\* page_data is the loc of exactly one url entry over all the parts, so the
\* url entries number len(page_data).
C4_EveryPageIncluded ==
    pc = "done" =>
        /\ \A i \in 1..Len(page_data) :
              Cardinality({e \in AllEntries :
                              PartDoc(e[1])[e[2]].loc = page_data[i].key}) = 1
        /\ Cardinality(AllEntries) = Len(page_data)

\* is name <prefix>-<positive integer>.xml
HasPartForm(part_prefix, name) ==
    \E digits \in {SubSeq(name, Len(part_prefix) + 2, Len(name) - Len(XmlExt))} :
        /\ name = part_prefix \o <<"-">> \o digits \o XmlExt
        /\ digits # <<>>
        /\ \A i \in 1..Len(digits) : IsDigit(digits[i])
        /\ \E i \in 1..Len(digits) : digits[i] # "0"

CurrentNames == {PathName(part_files[i]) : i \in 1..Len(part_files)}

\* C5: after cleanup_old_parts, with every unlink succeeding, the directory
\* has lost exactly the files named <prefix>-<positive integer>.xml that are
\* no part of this run, every other file is as it was, and the files of that
\* form are exactly the parts of this run.
C5_CleanupExact ==
    (pc \in {"index", "open_index"} /\ unlink_errors = {}) =>
        LET prefix == PartPrefix(output_stem)
            stale  == {n \in DOMAIN fs0 : HasPartForm(prefix, n) /\ n \notin CurrentNames}
        IN  /\ DOMAIN fs = (DOMAIN fs0 \ stale) \cup CurrentNames
            /\ \A n \in DOMAIN fs \ CurrentNames : fs[n] = fs0[n]
            /\ {n \in DOMAIN fs : HasPartForm(prefix, n)} = CurrentNames

\* C6: the index written has one entry per part of the run, in part order,
\* and the loc of each is the base URL joined with the part's file name.
C6_IndexLocJoined ==
    pc = "done" =>
        /\ Len(fs[IndexName].doc) = num_parts
        /\ \A i \in 1..Len(fs[IndexName].doc) :
              fs[IndexName].doc[i].loc =
                  urljoin(site_base_url,
                          Ref("rel", <<>>, PartFileName(PartPrefix(output_stem), i - 1)))

\* C7: the entries of one index all carry one lastmod value.
C7_OneTimestamp ==
    \A i, j \in 1..Len(sitemapindex) : sitemapindex[i].lastmod = sitemapindex[j].lastmod

\* C8: an entry of the walk that cannot be read does not end the run: the
\* scan goes on to return the records of the other pages.
C8_UnreadableSkipped ==
    /\ raised # "scan"
    /\ pc \notin {"scan", "aborted"} =>
          {page_data[i].key : i \in 1..Len(page_data)} = {WalkUrl(i) : i \in WalkPages}

\* C10: with a positive capacity the run never holds the records of more
\* pages than one part takes.
C10_OnePartInMemory ==
    split_limit > 0 => Len(page_data) <= split_limit

====
